---------------------------- MODULE Spec2Model ----------------------------
(***************************************************************************)
(* A model of log2life (src/main.go, the revision with timestamp pacing,   *)
(* lines 181-382): the line-to-pattern transform (LineToPattern, IPToXY,  *)
(* the XOR fold, MakeLife105) and the playback loop of main().            *)
(*                                                                         *)
(* Go strings are modelled as sequences of one-character strings, byte    *)
(* slices as sequences of integers 0..255.                                *)
(***************************************************************************)
EXTENDS Integers, Sequences, FiniteSets, TLC

(***************************************************************************)
(* Bounds of the model.                                                    *)
(***************************************************************************)
\* Number of lines the scanner delivers in one run.
MaxLines == 3
\* Longest payload handed to the fold in the encoder specification.
MaxPayload == 11
\* Largest of the small grid dimensions tried in the address specification.
MaxDim == 4

(***************************************************************************)
(* Go arithmetic.                                                          *)
(***************************************************************************)
Abs(a) == IF a < 0 THEN -a ELSE a

\* Go's integer division and float-to-int conversion truncate toward zero.
GoDiv(a, b) ==
    IF (a >= 0) = (b > 0) THEN Abs(a) \div Abs(b) ELSE -(Abs(a) \div Abs(b))

RECURSIVE XorBits(_, _, _)
XorBits(a, b, n) ==
    IF n = 0 THEN 0
    ELSE (((a % 2) + (b % 2)) % 2) + 2 * XorBits(a \div 2, b \div 2, n - 1)

\* data[idx] ^ b on bytes
Xor(a, b) == XorBits(a, b, 8)

(***************************************************************************)
(* Strings.                                                                *)
(***************************************************************************)
Digits == <<"0", "1", "2", "3", "4", "5", "6", "7", "8", "9">>

IsDigit(c) == \E i \in 1..10 : Digits[i] = c

DigitVal(c) == (CHOOSE i \in 1..10 : Digits[i] = c) - 1

\* []byte(s): the bytes of the characters that occur in the modelled lines.
Ord ==
    [c \in {" ", "\"", "/", ".", "0", "1", "2", "4", "G", "E", "T", "H", "P"} |->
        CASE c = " " -> 32  [] c = "\"" -> 34 [] c = "/" -> 47 [] c = "." -> 46
          [] c = "0" -> 48  [] c = "1" -> 49  [] c = "2" -> 50 [] c = "4" -> 52
          [] c = "G" -> 71  [] c = "E" -> 69  [] c = "T" -> 84 [] c = "H" -> 72
          [] c = "P" -> 80]

Bytes(s) == [i \in 1..Len(s) |-> Ord[s[i]]]

\* s[from:] of Go, from counted from 0; requires from <= len(s)
Slice(s, from) == SubSeq(s, from + 1, Len(s))

\* index (1-based) of the first occurrence of the character sep in s, 0 if none
IndexOf(s, sep) ==
    IF \E i \in 1..Len(s) : s[i] = sep
    THEN CHOOSE i \in 1..Len(s) : s[i] = sep /\ \A j \in 1..(i - 1) : s[j] # sep
    ELSE 0

\* strings.SplitN(s, sep, n) for a one-character sep and n > 0: at most n
\* substrings, the last one the unsplit remainder.
RECURSIVE SplitN(_, _, _)
SplitN(s, sep, n) ==
    LET i == IndexOf(s, sep) IN
    IF n = 1 \/ i = 0 THEN <<s>>
    ELSE <<SubSeq(s, 1, i - 1)>> \o SplitN(SubSeq(s, i + 1, Len(s)), sep, n - 1)

IsSpace(c) == c \in {" ", "\t", "\n", "\r"}

\* strings.TrimSpace(s)
RECURSIVE TrimSpace(_)
TrimSpace(s) ==
    IF s = <<>> THEN s
    ELSE IF IsSpace(s[1]) THEN TrimSpace(Tail(s))
    ELSE IF IsSpace(s[Len(s)]) THEN TrimSpace(SubSeq(s, 1, Len(s) - 1))
    ELSE s

\* the decimal digits of n >= 0
RECURSIVE UDec(_)
UDec(n) == IF n < 10 THEN <<Digits[n + 1]>> ELSE UDec(n \div 10) \o <<Digits[(n % 10) + 1]>>

\* fmt's %d
Itoa(n) == IF n < 0 THEN <<"-">> \o UDec(-n) ELSE UDec(n)

\* the value of a string of decimal digits
RECURSIVE Atoi(_)
Atoi(s) == IF s = <<>> THEN 0 ELSE 10 * Atoi(SubSeq(s, 1, Len(s) - 1)) + DigitVal(s[Len(s)])

AllDigits(s) == \A i \in 1..Len(s) : IsDigit(s[i])


(***************************************************************************)
(* net.ParseIP, for the dotted-quad form: four decimal fields of one to    *)
(* three digits without a leading zero, each at most 255.  The result is  *)
(* the 16-byte form (the IPv4 bytes at Go indices 12..15), or <<>> for    *)
(* nil.  Text that is not made of digits and dots is no address in the    *)
(* modelled lines (no IPv6 literal occurs in them).                       *)
(***************************************************************************)
IsOctet(f) ==
    /\ Len(f) \in 1..3
    /\ AllDigits(f)
    /\ (Len(f) > 1 => f[1] # "0")
    /\ Atoi(f) <= 255

ParseIP(addr) ==
    LET parts == SplitN(addr, ".", 5) IN
    IF Len(parts) = 4 /\ \A i \in 1..4 : IsOctet(parts[i])
    THEN <<0, 0, 0, 0, 0, 0, 0, 0, 0, 0, 255, 255>>
            \o [i \in 1..4 |-> Atoi(parts[i])]
    ELSE <<>>

\* int(float64(u)/0xffff*float64(size)) - size/2.  The float product is
\* truncated toward zero; for the grid sizes of this model (1..50, 100, 255)
\* it equals the exact quotient u*size/65535 truncated, for every u.
Scale(u, size) == GoDiv(u * size, 65535) - GoDiv(size, 2)

\* IPToXY; ip[i] of Go is ip[i + 1] here
IPToXY(addr, width, height) ==
    LET ip == ParseIP(addr) IN
    IF ip = <<>> THEN <<0, 0>>
    ELSE <<Scale(ip[13] * 256 + ip[14], width),
           Scale(ip[15] * 256 + ip[16], height)>>

(***************************************************************************)
(* time.Parse("02/Jan/2006:15:04:05 -0700", s), for the fixed-width form   *)
(* dd/Mon/yyyy:hh:mm:ss +zzzz: the separators, the digits, the month      *)
(* abbreviation and the ranges of the fields are checked, and the result  *)
(* is the instant in seconds since 1970-01-01T00:00:00Z.  A value of      *)
(* time.Time is [zero, unix]; zero marks time.Time{}, whose location      *)
(* pointer is nil, while every value time.Parse returns for this layout   *)
(* carries a location, so the two never compare equal.  The forms that    *)
(* time.Parse takes besides (an hour of one digit, a fraction after the   *)
(* seconds, a month in another case) do not occur in the modelled lines,  *)
(* whose years keep the seconds within 32 bits.                           *)
(***************************************************************************)
MonthChars ==
    <<<<"J", "a", "n">>, <<"F", "e", "b">>, <<"M", "a", "r">>, <<"A", "p", "r">>,
      <<"M", "a", "y">>, <<"J", "u", "n">>, <<"J", "u", "l">>, <<"A", "u", "g">>,
      <<"S", "e", "p">>, <<"O", "c", "t">>, <<"N", "o", "v">>, <<"D", "e", "c">>>>

IsLeap(y) == (y % 4 = 0) /\ ((y % 100 # 0) \/ (y % 400 = 0))

DaysIn(m, y) ==
    IF m = 2 THEN (IF IsLeap(y) THEN 29 ELSE 28)
    ELSE IF m \in {4, 6, 9, 11} THEN 30 ELSE 31

\* days from 1970-01-01 to y-m-d in the proleptic Gregorian calendar
DaysFromCivil(y, m, d) ==
    LET yy  == IF m <= 2 THEN y - 1 ELSE y
        era == yy \div 400
        yoe == yy - era * 400
        mp  == (m + 9) % 12
        doy == (153 * mp + 2) \div 5 + d - 1
        doe == yoe * 365 + yoe \div 4 - yoe \div 100 + doy
    IN  era * 146097 + doe - 719468

noTime == [zero |-> TRUE, unix |-> 0]

ParseError == [ok |-> FALSE, t |-> noTime]

ParseTime(s) ==
    IF ~ ( /\ Len(s) = 26
           /\ s[3] = "/" /\ s[7] = "/" /\ s[12] = ":" /\ s[15] = ":"
           /\ s[18] = ":" /\ s[21] = " " /\ s[22] \in {"+", "-"}
           /\ \A i \in {1, 2, 8, 9, 10, 11, 13, 14, 16, 17, 19, 20, 23, 24, 25, 26} :
                 IsDigit(s[i])
           /\ \E m \in 1..12 : MonthChars[m] = SubSeq(s, 4, 6) )
    THEN ParseError
    ELSE
      LET day   == Atoi(SubSeq(s, 1, 2))
          month == CHOOSE m \in 1..12 : MonthChars[m] = SubSeq(s, 4, 6)
          year  == Atoi(SubSeq(s, 8, 11))
          hour  == Atoi(SubSeq(s, 13, 14))
          min   == Atoi(SubSeq(s, 16, 17))
          sec   == Atoi(SubSeq(s, 19, 20))
          zh    == Atoi(SubSeq(s, 23, 24))
          zm    == Atoi(SubSeq(s, 25, 26))
          zone  == (IF s[22] = "-" THEN -1 ELSE 1) * (zh * 3600 + zm * 60)
      IN  IF \/ day < 1 \/ day > DaysIn(month, year)
             \/ hour > 23 \/ min > 59 \/ sec > 59 \/ zh > 24 \/ zm > 60
          THEN ParseError
          ELSE [ok |-> TRUE,
                t  |-> [zero |-> FALSE,
                        unix |-> DaysFromCivil(year, month, day) * 86400
                                   + hour * 3600 + min * 60 + sec - zone]]

(***************************************************************************)
(* The XOR fold of LineToPattern and MakeLife105.                          *)
(***************************************************************************)
Quote == 34

\* a quote is skipped and the index moves on
FoldStepCounted(st, b) ==
    IF b = Quote THEN <<st[1], (st[2] + 1) % 8>>
    ELSE <<[st[1] EXCEPT ![st[2] + 1] = Xor(@, b)], (st[2] + 1) % 8>>

\* one turn of the loop over the bytes: st is <<data, idx>>
FoldStep(st, b) ==
    IF b = Quote THEN st
    ELSE <<[st[1] EXCEPT ![st[2] + 1] = Xor(@, b)], (st[2] + 1) % 8>>

RECURSIVE FoldFrom(_, _, _)
FoldFrom(bytes, i, st) ==
    IF i > Len(bytes) THEN st ELSE FoldFrom(bytes, i + 1, FoldStep(st, bytes[i]))

\* var data [8]byte; var idx int; for _, b := range ... : data[i] of Go is
\* data[i + 1] here
XorFold(bytes) == FoldFrom(bytes, 1, <<[i \in 1..8 |-> 0], 0>>)[1]

\* the inner loop of MakeLife105: i characters are still to be produced
RECURSIVE RowFrom(_, _)
RowFrom(b, i) ==
    IF i = 0 THEN <<>>
    ELSE <<IF b \div 128 = 1 THEN "*" ELSE ".">> \o RowFrom((b * 2) % 256, i - 1)

\* the bits from the least significant one
RECURSIVE RowUp(_, _)
RowUp(b, i) ==
    IF i = 0 THEN <<>>
    ELSE <<IF b % 2 = 1 THEN "*" ELSE ".">> \o RowUp(b \div 2, i - 1)

RowLowFirst(b) == RowUp(b, 8)

\* one row of the grid, lines 368-378
Row(b) == RowFrom(b, 8)

MakeLife105(x, y, data) ==
    << <<"#", "L", "i", "f", "e", " ", "1", ".", "0", "5">>,
       <<"#", "D", " ", "l", "o", "g", "2", "l", "i", "f", "e", " ",
         "o", "u", "p", "u", "t">>,
       <<"#", "N">>,
       <<"#", "P", " ">> \o Itoa(x) \o <<" ">> \o Itoa(y) >>
    \o [i \in 1..8 |-> Row(data[i])]

(***************************************************************************)
(* LineToPattern.  The result is [kind, pattern, timestamp, err]: kind is  *)
(* "ok" (error nil), "err" (an error value is returned) or "panic" (an    *)
(* index or slice expression is out of range, which ends the process).    *)
(***************************************************************************)
Panic == [kind |-> "panic", pattern |-> <<>>, timestamp |-> noTime, err |-> "runtime error"]

Failed(e) == [kind |-> "err", pattern |-> <<>>, timestamp |-> noTime, err |-> e]

\* the text between the first two quotes of s
Quoted(s) ==
    LET q == Slice(s, IndexOf(s, "\"")) IN SubSeq(q, 1, IndexOf(q, "\"") - 1)

\* only the quoted request is folded
LineToPatternQuoted(line, width, height) ==
    LET fields == SplitN(line, " ", 4) IN
    IF fields[1] = <<"-">> \/ TrimSpace(fields[1]) = <<>>
    THEN Failed("No client IP address")
    ELSE
      LET xy == IPToXY(fields[1], width, height) IN
      IF Len(fields) < 4 THEN Panic
      ELSE
        LET parts == SplitN(fields[4], "]", 2) IN
        IF Len(parts[1]) < 1 THEN Panic
        ELSE
          LET parsed == ParseTime(Slice(parts[1], 1)) IN
          IF ~parsed.ok THEN Failed("parsing time")
          ELSE IF Len(parts) < 2 THEN Panic
          ELSE [kind      |-> "ok",
                pattern   |-> MakeLife105(xy[1], xy[2], XorFold(Bytes(Quoted(parts[2])))),
                timestamp |-> parsed.t,
                err       |-> "nil"]

LineToPattern(line, width, height) ==
    LET fields == SplitN(line, " ", 4) IN
    IF fields[1] = <<"-">> \/ TrimSpace(fields[1]) = <<>>
    THEN Failed("No client IP address")
    ELSE
      LET xy == IPToXY(fields[1], width, height) IN
      IF Len(fields) < 4 THEN Panic                  \* fields[3]
      ELSE
        LET parts == SplitN(fields[4], "]", 2) IN
        IF Len(parts[1]) < 1 THEN Panic              \* fields[0][1:]
        ELSE
          LET parsed == ParseTime(Slice(parts[1], 1)) IN
          IF ~parsed.ok THEN Failed("parsing time")
          ELSE IF Len(parts) < 2 THEN Panic          \* fields[1]
          ELSE [kind      |-> "ok",
                pattern   |-> MakeLife105(xy[1], xy[2], XorFold(Bytes(parts[2]))),
                timestamp |-> parsed.t,
                err       |-> "nil"]


(***************************************************************************)
(* The input lines of the model: the parts of a lighttpd access-log line   *)
(* and the lines built from them.                                          *)
(***************************************************************************)
Addr1 ==
    <<"1", "0", ".", "0", ".", "0", ".", "1">>

Addr2 ==
    <<"2", "5", "5", ".", "2", "5", "5", ".", "0", ".", "1">>

\* 2022-11-20T02:27:49Z
Stamp1 ==
    <<"2", "0", "/", "N", "o", "v", "/", "2", "0", "2", "2", ":", "0", "2",
      ":", "2", "7", ":", "4", "9", " ", "+", "0", "0", "0", "0">>

\* 2022-11-20T02:27:53Z, four seconds after Stamp1, in another zone
Stamp2 ==
    <<"2", "0", "/", "N", "o", "v", "/", "2", "0", "2", "2", ":", "0", "3",
      ":", "2", "7", ":", "5", "3", " ", "+", "0", "1", "0", "0">>

\* not in the layout
StampBad ==
    <<"2", "0", "-", "N", "o", "v", "-", "2", "0", "2", "2", " ", "0", "2",
      ":", "2", "7", ":", "4", "9">>

Tail200 ==
    <<" ", "\"", "G", "E", "T", " ", "/", " ", "H", "T", "T", "P", "/",
      "1", ".", "1", "\"", " ", "2", "0", "0", " ", "1", "0", "0">>

Tail404 ==
    <<" ", "\"", "G", "E", "T", " ", "/", " ", "H", "T", "T", "P", "/",
      "1", ".", "1", "\"", " ", "4", "0", "4", " ", "1", "0", "0">>

Dashes == <<" ", "-", " ", "-", " ">>

LogLine(addr, stamp, tail) == addr \o Dashes \o <<"[">> \o stamp \o <<"]">> \o tail

\* 10.0.0.1 - - [20/Nov/2022:02:27:49 +0000] "GET / HTTP/1.1" 200 100
LineA == LogLine(Addr1, Stamp1, Tail200)

\* as LineA, with another status code after the quoted request
LineA404 == LogLine(Addr1, Stamp1, Tail404)

\* another address and a later timestamp, the rest as in LineA
LineB == LogLine(Addr2, Stamp2, Tail200)

\* the first field is "-"
LineNoAddr == LogLine(<<"-">>, Stamp1, Tail200)

LineEmpty == <<>>

\* the first field is a tab
LineTab == LogLine(<<"\t">>, Stamp1, Tail200)

LineBadStamp == LogLine(Addr1, StampBad, Tail200)

\* fewer than four fields
LineShort == Addr1 \o <<" ", "-", " ", "-">>

\* the fourth field begins with "]"
LineBracket == Addr1 \o Dashes \o <<"]">> \o Tail200

\* the fourth field holds a timestamp and no "]"
LineOpen == Addr1 \o Dashes \o <<"[">> \o Stamp1

\* the lines scanner.Text() can return, each under a name
Corpus ==
    [A |-> LineA, A404 |-> LineA404, B |-> LineB, NoAddr |-> LineNoAddr,
     Empty |-> LineEmpty, Tab |-> LineTab, BadStamp |-> LineBadStamp,
     Short |-> LineShort, Bracket |-> LineBracket, Open |-> LineOpen]

Lines == DOMAIN Corpus


(***************************************************************************)
(* The playback loop of main().                                            *)
(***************************************************************************)
VARIABLES
    pc,         \* where main() is: "start", "scan", "pace", "send", or ended:
                \* "done" (exit 0), "fatal" (log.Fatal), "panic"
    filename,   \* flag.Arg(0)
    cfg,        \* the fields of cfg the loop reads: Speed, Columns, Rows
    lastTime,   \* the timestamp of the record before
    pattern,    \* the loop's locals, set by LineToPattern
    timestamp,
    lines,      \* the lines scanner.Scan has delivered, in order, each by its
                \* name in Corpus
    logged,     \* the errors log.Print has printed: [n, err], n the line number
    paced,      \* lines 272-277 for record n: [n, timed, divided, delay, slept],
                \* timed: line 273 found a last timestamp; divided: line 274
                \* divided by cfg.Speed; delay, slept in microseconds
    posts,      \* the calls of SendPattern: [n, pattern, err]
    call        \* a single call of a function, in the specifications below

vars == <<pc, filename, cfg, lastTime, pattern, timestamp, lines, logged,
          paced, posts, call>>

\* cfg.Speed, a float64, is a ratio num/den of small integers here, for which
\* the float arithmetic of line 274 is exact up to the truncation it ends with.
Rat(n, d) == [num |-> n, den |-> d]

Speeds == {Rat(-1, 1), Rat(0, 1), Rat(1, 2), Rat(1, 1), Rat(2, 1), Rat(3, 1)}

DefaultColumns == 100

DefaultRows == 100

Idle == [fn |-> "none"]

\* LineToPattern on the lines and grid sizes of the model, evaluated once
Converted ==
    [line \in Lines, width \in {DefaultColumns}, height \in {DefaultRows} |->
        LineToPattern(Corpus[line], width, height)]

Init ==
    /\ pc = "start"
    /\ filename \in {"-", "access.log"}
    /\ cfg \in [Speed : Speeds, Columns : {DefaultColumns}, Rows : {DefaultRows}]
    /\ lastTime = noTime
    /\ pattern = <<>>
    /\ timestamp = noTime
    /\ lines = <<>>
    /\ logged = <<>>
    /\ paced = <<>>
    /\ posts = <<>>
    /\ call = Idle

\* lines 244-261: the input is opened; standard input sets the speed to 0
Start ==
    /\ pc = "start"
    /\ \/ /\ filename = "-"
          /\ cfg' = [cfg EXCEPT !.Speed = Rat(0, 1)]
          /\ pc' = "scan"
       \/ /\ filename # "-"
          /\ cfg' = cfg
          /\ \E opened \in BOOLEAN : pc' = IF opened THEN "scan" ELSE "fatal"
    /\ lastTime' = noTime
    /\ UNCHANGED <<filename, pattern, timestamp, lines, logged, paced, posts, call>>

\* lines 264-267: log.Print(err); continue
OnErrorStale(r) ==
    /\ logged' = Append(logged, [n |-> Len(lines) + 1, err |-> r.err])
    /\ lastTime' = r.timestamp
    /\ pc' = "scan"
    /\ UNCHANGED <<pattern, timestamp, paced, posts>>

OnError(r) ==
    /\ logged' = Append(logged, [n |-> Len(lines) + 1, err |-> r.err])
    /\ pc' = "scan"
    /\ UNCHANGED <<lastTime, pattern, timestamp, paced, posts>>

\* lines 262-267: scanner.Scan() delivers a line and LineToPattern is called
ScanLine ==
    /\ pc = "scan"
    /\ Len(lines) < MaxLines
    /\ \E line \in Lines :
         LET r == Converted[line, cfg.Columns, cfg.Rows] IN
         /\ lines' = Append(lines, line)
         /\ CASE r.kind = "panic" ->
                   /\ pc' = "panic"
                   /\ UNCHANGED <<lastTime, pattern, timestamp, logged, paced, posts>>
              [] r.kind = "err" -> OnError(r)
              [] r.kind = "ok" ->
                   /\ pattern' = r.pattern
                   /\ timestamp' = r.timestamp
                   /\ pc' = "pace"
                   /\ UNCHANGED <<lastTime, logged, paced, posts>>
    /\ UNCHANGED <<filename, cfg, call>>

\* lines 262, 287-290: scanner.Scan() returns false, at the end of the input
\* (exit 0) or on a read error (log.Fatal)
ScanEnd ==
    /\ pc = "scan"
    /\ \E readError \in BOOLEAN : pc' = IF readError THEN "fatal" ELSE "done"
    /\ UNCHANGED <<filename, cfg, lastTime, pattern, timestamp, lines, logged,
                   paced, posts, call>>

\* timestamp.Sub(lastTime).Microseconds(); timestamps have whole seconds
Micros(t, last) == (t.unix - last.unix) * 1000000

\* A float64 that is out of the range of int64 (an infinity, a NaN) converts
\* to an implementation-dependent value: the smallest int64 (amd64), or the
\* nearest int64 and 0 for a NaN (arm64).  Multiplied by time.Microsecond
\* (1000) in 64 bits these give 0, -1000 ns and 0: in microseconds,
OutOfRange == {0, -1}

DelaysTimes(t, last, speed) ==
    IF speed.num = 0 THEN OutOfRange
    ELSE {GoDiv(Micros(t, last) * speed.num, speed.den)}

DelaysSwapped(t, last, speed) ==
    IF speed.num = 0 THEN OutOfRange
    ELSE {GoDiv(Micros(last, t) * speed.den, speed.num)}

\* line 274: the values, in microseconds, that
\* time.Duration(float64(timestamp.Sub(lastTime).Microseconds())*1/cfg.Speed)
\* can take; the division by cfg.Speed is done whatever the speed is
Delays(t, last, speed) ==
    IF speed.num = 0 THEN OutOfRange
    ELSE {GoDiv(Micros(t, last) * speed.den, speed.num)}

\* time.Sleep(d) returns at once for d <= 0: the time slept
Sleep(d) == IF d > 0 THEN d ELSE 0

\* lines 272-278
Pace ==
    /\ pc = "pace"
    /\ IF lastTime # noTime
       THEN \E delay \in Delays(timestamp, lastTime, cfg.Speed) :
              paced' = Append(paced, [n |-> Len(lines), timed |-> TRUE,
                                      divided |-> TRUE, delay |-> delay,
                                      slept |-> Sleep(delay)])
       ELSE paced' = Append(paced, [n |-> Len(lines), timed |-> FALSE,
                                    divided |-> FALSE, delay |-> 0, slept |-> 0])
    /\ lastTime' = timestamp
    /\ pc' = "send"
    /\ UNCHANGED <<filename, cfg, pattern, timestamp, lines, logged, posts, call>>

\* SendPattern: the POST succeeds or fails; the results it can return
SendPattern(p) == {"nil", "transport error"}

\* a failed POST is made a second time
SendRetry ==
    /\ pc = "send"
    /\ \E err \in SendPattern(pattern) :
         posts' = IF err = "nil"
                  THEN Append(posts, [n |-> Len(lines), pattern |-> pattern, err |-> err])
                  ELSE posts \o << [n |-> Len(lines), pattern |-> pattern, err |-> err],
                                   [n |-> Len(lines), pattern |-> pattern, err |-> err] >>
    /\ pattern' = <<>>
    /\ timestamp' = noTime
    /\ pc' = "scan"
    /\ UNCHANGED <<filename, cfg, lastTime, lines, logged, paced, call>>

\* lines 280-286: the pattern is sent, an error is printed, and the loop
\* goes on with the next line
Send ==
    /\ pc = "send"
    /\ \E err \in SendPattern(pattern) :
         posts' = Append(posts, [n |-> Len(lines), pattern |-> pattern, err |-> err])
    /\ pattern' = <<>>
    /\ timestamp' = noTime
    /\ pc' = "scan"
    /\ UNCHANGED <<filename, cfg, lastTime, lines, logged, paced, call>>

Next == Start \/ ScanLine \/ ScanEnd \/ Pace \/ Send

Spec == Init /\ [][Next]_vars


(***************************************************************************)
(* IPToXY on its own: one call, on an address text and a grid size drawn   *)
(* from small sets.                                                        *)
(***************************************************************************)
ByteSamples == {0, 1, 128, 255}

Dotted(b) ==
    Itoa(b[1]) \o <<".">> \o Itoa(b[2]) \o <<".">> \o Itoa(b[3]) \o <<".">> \o Itoa(b[4])

\* three fields; a field with a leading zero; a host name
NoAddresses ==
    { <<"1", ".", "2", ".", "3">>,
      <<"0", "1", ".", "2", ".", "3", ".", "4">>,
      <<"l", "o", "c", "a", "l", "h", "o", "s", "t">> }

AddressTexts ==
    {Dotted(b) : b \in [1..4 -> ByteSamples]} \cup NoAddresses

GridSizes == (1..MaxDim) \cup {DefaultColumns, 255}

\* the variables of the playback loop, which takes no step in these
\* specifications
LoopIdle ==
    /\ pc = "call"
    /\ filename = "-"
    /\ cfg = [Speed |-> Rat(1, 1), Columns |-> DefaultColumns, Rows |-> DefaultRows]
    /\ lastTime = noTime
    /\ pattern = <<>>
    /\ timestamp = noTime
    /\ lines = <<>>
    /\ logged = <<>>
    /\ paced = <<>>
    /\ posts = <<>>

loopVars == <<pc, filename, cfg, lastTime, pattern, timestamp, lines, logged,
              paced, posts>>

InitAddr ==
    /\ LoopIdle
    /\ \E addr \in AddressTexts, width \in GridSizes, height \in GridSizes :
         call = [fn |-> "IPToXY", addr |-> addr, width |-> width,
                 height |-> height, returned |-> FALSE, x |-> 0, y |-> 0]

CallIPToXY ==
    /\ call.fn = "IPToXY"
    /\ ~call.returned
    /\ LET xy == IPToXY(call.addr, call.width, call.height) IN
         call' = [call EXCEPT !.returned = TRUE, !.x = xy[1], !.y = xy[2]]
    /\ UNCHANGED loopVars

SpecAddr == InitAddr /\ [][CallIPToXY]_vars

(***************************************************************************)
(* The fold and MakeLife105 on their own: one call, on a payload of bytes  *)
(* and a coordinate drawn from small sets.                                 *)
(***************************************************************************)
\* "GET /" and the two bytes of a letter outside ASCII, which have their
\* high bit set
Sample == <<71, 69, 84, 32, 47, 195, 168>>

\* the payloads: at place i a quote or a byte of the sample, taken in turn,
\* so that the bytes that meet at one index of the fold differ
Payloads ==
    UNION { { [i \in 1..n |->
                 IF i \in quotes THEN Quote ELSE Sample[((i - 1) % Len(Sample)) + 1]]
              : quotes \in SUBSET (1..n) }
            : n \in 0..MaxPayload }

Coordinates == {<<-50, 49>>, <<0, -7>>}

InitEncode ==
    /\ LoopIdle
    /\ \E payload \in Payloads, xy \in Coordinates :
         call = [fn |-> "encode", payload |-> payload, x |-> xy[1], y |-> xy[2],
                 returned |-> FALSE, data |-> <<>>, pattern |-> <<>>]

\* lines 313-325 of LineToPattern
CallEncode ==
    /\ call.fn = "encode"
    /\ ~call.returned
    /\ LET data == XorFold(call.payload) IN
         call' = [call EXCEPT !.returned = TRUE, !.data = data,
                              !.pattern = MakeLife105(call.x, call.y, data)]
    /\ UNCHANGED loopVars

SpecEncode == InitEncode /\ [][CallEncode]_vars


(***************************************************************************)
(* What the properties below speak of.                                     *)
(***************************************************************************)
\* the result of LineToPattern on the n-th line of the run
ResultOf(n) == Converted[lines[n], cfg.Columns, cfg.Rows]

ParsedOK(n) == ResultOf(n).kind = "ok"

\* the lines the loop is through with: the last one is still in the loop
\* body while the program is at "pace" or "send"
Handled == IF pc \in {"pace", "send"} THEN Len(lines) - 1 ELSE Len(lines)

\* the numbers of the successfully parsed lines among the first upto, in order
RECURSIVE OKNumbers(_)
OKNumbers(upto) ==
    IF upto = 0 THEN <<>>
    ELSE OKNumbers(upto - 1) \o (IF ParsedOK(upto) THEN <<upto>> ELSE <<>>)

\* the number of the last successfully parsed line before line n, 0 if none
PrevOK(n) ==
    IF \E m \in 1..(n - 1) : ParsedOK(m)
    THEN CHOOSE m \in 1..(n - 1) : ParsedOK(m) /\ \A k \in (m + 1)..(n - 1) : ~ParsedOK(k)
    ELSE 0

\* t_cur - t_prev in microseconds, for a parsed line n with an earlier one
GapMicros(n) ==
    (ResultOf(n).timestamp.unix - ResultOf(PrevOK(n)).timestamp.unix) * 1000000

Positive(speed) == speed.num > 0

Bit(b, k) == (b \div (2 ^ k)) % 2

NonQuotes(bytes) == SelectSeq(bytes, LAMBDA b : b # Quote)

\* the XOR of bytes[k], bytes[k + 8], bytes[k + 16], ...
RECURSIVE XorEvery8th(_, _)
XorEvery8th(bytes, k) ==
    IF k > Len(bytes) THEN 0 ELSE Xor(bytes[k], XorEvery8th(bytes, k + 8))

\* the text of a line after the first "]" of what follows its third space
AfterThirdSpace(line) ==
    LET a == Slice(line, IndexOf(line, " "))
        b == Slice(a, IndexOf(a, " "))
    IN  Slice(b, IndexOf(b, " "))

RestOf(line) == LET f == AfterThirdSpace(line) IN Slice(f, IndexOf(f, "]"))

\* the address, the bracketed timestamp and the quoted request of a line
AddressOf(line) == SubSeq(line, 1, IndexOf(line, " ") - 1)

StampOf(line) ==
    LET f == AfterThirdSpace(line) IN SubSeq(f, 2, IndexOf(f, "]") - 1)

RequestOf(line) ==
    LET q == Slice(RestOf(line), IndexOf(RestOf(line), "\"")) IN
    SubSeq(q, 1, IndexOf(q, "\"") - 1)

GridRows(p) == SubSeq(p, 5, Len(p))

\* for each line that parses, the rows of the text after "]" without its
\* quotes: cell j of row i is alive exactly if bit 7-j is set in the XOR of
\* the bytes i, i+8, i+16, ... of it
RestRows ==
    [line \in {l \in Lines : Converted[l, DefaultColumns, DefaultRows].kind = "ok"} |->
        LET payload == NonQuotes(Bytes(RestOf(Corpus[line]))) IN
        [i \in 1..8 |->
            [j \in 1..8 |->
                IF Bit(XorEvery8th(payload, i), 8 - j) = 1 THEN "*" ELSE "."]]]

\* the parts of the lines, evaluated once
Parts ==
    [line \in Lines |->
        [address |-> AddressOf(Corpus[line]), stamp |-> StampOf(Corpus[line]),
         request |-> RequestOf(Corpus[line]), rest |-> RestOf(Corpus[line])]]

(***************************************************************************)
(* The properties.                                                         *)
(***************************************************************************)

\* C1: no input line is fatal: on every line LineToPattern returns a pattern
\* or an error value and the loop goes on, so the run never ends in a panic.
C1_NoLineIsFatal == pc # "panic"

\* C2: the calls of SendPattern are, in order and one each, the lines for
\* which LineToPattern succeeded, each with the pattern of its line, whatever
\* the earlier calls returned.
C2_AttemptsFollowParsedLines ==
    /\ [k \in 1..Len(posts) |-> posts[k].n]
          = OKNumbers(Handled)
    /\ \A k \in 1..Len(posts) : posts[k].pattern = ResultOf(posts[k].n).pattern

\* a failed send, then a line that fails, then a line that is sent
C2_Witness ==
    /\ Len(posts) >= 2
    /\ posts[1].err = "transport error"
    /\ posts[2].n > posts[1].n + 1

\* C3: for a valid dotted address and a positive grid size (an even one,
\* for which the interval of the claim holds as many cells as the grid),
\* -W/2 <= x < W/2 and -H/2 <= y < H/2.
C3_CoordinateInRange ==
    ( /\ call.returned
      /\ call.addr \notin NoAddresses
      /\ call.width % 2 = 0
      /\ call.height % 2 = 0 )
    => /\ -(call.width \div 2) <= call.x /\ call.x < call.width \div 2
       /\ -(call.height \div 2) <= call.y /\ call.y < call.height \div 2

\* C4, as claimed: two sent lines with the same address, timestamp and
\* quoted request have the same 8 grid rows.
C4_PayloadIsQuotedRequest ==
    \A i, j \in 1..Len(posts) :
      LET a == Parts[lines[posts[i].n]]
          b == Parts[lines[posts[j].n]]
      IN  (a.address = b.address /\ a.stamp = b.stamp /\ a.request = b.request)
          => GridRows(posts[i].pattern) = GridRows(posts[j].pattern)

\* C4, amended: the payload is all the text after the first "]" of the
\* fourth field: cell j of row i is alive exactly if bit 7-j is set in the
\* XOR of the bytes i, i+8, i+16, ... of that text without its quotes; so
\* two sent lines with the same text after "]" have the same 8 rows.
C4_PayloadIsRestOfLine ==
    /\ \A k \in 1..Len(posts) :
         GridRows(posts[k].pattern) = RestRows[lines[posts[k].n]]
    /\ \A i, j \in 1..Len(posts) :
         Parts[lines[posts[i].n]].rest = Parts[lines[posts[j].n]].rest
           => GridRows(posts[i].pattern) = GridRows(posts[j].pattern)

\* two sent lines with the same address, timestamp and request whose rows
\* differ, and two with another address and timestamp whose rows agree
C4_Witness ==
    \E i, j, k \in 1..Len(posts) :
      LET a == Parts[lines[posts[i].n]]
          b == Parts[lines[posts[j].n]]
          c == Parts[lines[posts[k].n]]
      IN  /\ a.address = b.address /\ a.stamp = b.stamp
          /\ a.request = b.request /\ a.rest # b.rest
          /\ GridRows(posts[i].pattern) # GridRows(posts[j].pattern)
          /\ c.address # a.address /\ c.stamp # a.stamp
          /\ c.rest = a.rest
          /\ GridRows(posts[k].pattern) = GridRows(posts[i].pattern)

\* C5: in the playback of a file at a speed s > 0, nothing is slept before
\* the first successfully parsed record, and before a later one whose
\* timestamp is not earlier than that of the last successfully parsed record
\* before it the sleep is the gap divided by s, in whole microseconds: the
\* gap itself at s = 1, half of it at s = 2.
C5_DelayIsScaledGap ==
    (filename # "-" /\ Positive(cfg.Speed)) =>
      \A k \in 1..Len(paced) :
        LET n == paced[k].n IN
        IF PrevOK(n) = 0
        THEN ~paced[k].timed /\ paced[k].slept = 0
        ELSE GapMicros(n) >= 0 =>
               /\ paced[k].timed
               /\ paced[k].slept * cfg.Speed.num <= GapMicros(n) * cfg.Speed.den
               /\ GapMicros(n) * cfg.Speed.den < (paced[k].slept + 1) * cfg.Speed.num
               /\ (cfg.Speed = Rat(1, 1) => paced[k].slept = GapMicros(n))
               /\ (cfg.Speed = Rat(2, 1) => 2 * paced[k].slept = GapMicros(n))

\* at speed 2, a record whose send failed, a line that failed, and a record
\* four seconds later, before which two seconds are slept
C5_Witness ==
    /\ filename # "-" /\ cfg.Speed = Rat(2, 1)
    /\ Len(paced) = 2 /\ Len(posts) >= 1
    /\ posts[1].err = "transport error"
    /\ paced[2].n = paced[1].n + 2
    /\ paced[2].slept = 2000000

\* C6: at a speed <= 0 the delay before every record is zero, nothing is
\* slept, and no division by the speed takes place.
C6_NoDelayNoDivision ==
    (cfg.Speed.num <= 0) =>
      \A k \in 1..Len(paced) :
        paced[k].delay = 0 /\ paced[k].slept = 0 /\ ~paced[k].divided

\* C7: the pattern has 12 lines: the four header lines, the fourth holding
\* the decimal x and y, then 8 rows of 8 characters, character j of row i
\* being "*" exactly if bit 7-j of fingerprint byte i is set, "." if not.
C7_PatternShape ==
    call.returned =>
      LET p == call.pattern
          origin == SplitN(p[4], " ", 4)
          Signed(t) == IF t[1] = "-" THEN -Atoi(Tail(t)) ELSE Atoi(t)
      IN  /\ Len(p) = 12
          /\ p[1] = <<"#", "L", "i", "f", "e", " ", "1", ".", "0", "5">>
          /\ p[2] = <<"#", "D", " ", "l", "o", "g", "2", "l", "i", "f", "e", " ",
                      "o", "u", "p", "u", "t">>
          /\ p[3] = <<"#", "N">>
          /\ Len(origin) = 3 /\ origin[1] = <<"#", "P">>
          /\ Signed(origin[2]) = call.x /\ Signed(origin[3]) = call.y
          /\ \A i \in 1..8 :
               /\ Len(p[4 + i]) = 8
               /\ \A j \in 0..7 :
                    /\ p[4 + i][j + 1] \in {"*", "."}
                    /\ (p[4 + i][j + 1] = "*") <=> (Bit(call.data[i], 7 - j) = 1)

\* a pattern at a negative x with a row that has its first cell alive and
\* its last cell dead
C7_Witness ==
    /\ call.returned
    /\ call.x < 0
    /\ \E i \in 1..8 : call.pattern[4 + i][1] = "*" /\ call.pattern[4 + i][8] = "."

\* C8: the fingerprint has 8 bytes and is that of the payload without its
\* quotes; byte i of it is the XOR of the non-quote bytes i, i+8, ... (the
\* k-th non-quote byte goes to index k mod 8); an empty payload gives zeros.
C8_FoldSkipsQuotes ==
    call.returned =>
      /\ Len(call.data) = 8
      /\ call.data = XorFold(NonQuotes(call.payload))
      /\ \A i \in 1..8 : call.data[i] = XorEvery8th(NonQuotes(call.payload), i)
      /\ (call.payload = <<>> => \A i \in 1..8 : call.data[i] = 0)

\* a payload with a quote before its end and nine bytes that are not quotes,
\* so that the fold index wraps
C8_Witness ==
    /\ call.returned
    /\ Len(call.payload) > 9
    /\ call.payload[2] = Quote
    /\ Len(NonQuotes(call.payload)) = 9
    /\ call.data[1] # 0

\* C9, as claimed: at a speed > 0, for a record whose timestamp is earlier
\* than that of the last successfully parsed record before it, the delay
\* computed is zero and nothing is slept.
C9_DelayClamped ==
    Positive(cfg.Speed) =>
      \A k \in 1..Len(paced) :
        (PrevOK(paced[k].n) # 0 /\ GapMicros(paced[k].n) < 0)
          => paced[k].delay = 0 /\ paced[k].slept = 0

\* C9, amended: the delay computed for such a record is not clamped: it is
\* the negative gap divided by the speed, in whole microseconds toward zero;
\* nothing is slept for it.
C9_NegativeDelayNotSlept ==
    Positive(cfg.Speed) =>
      \A k \in 1..Len(paced) :
        (PrevOK(paced[k].n) # 0 /\ GapMicros(paced[k].n) < 0)
          => /\ paced[k].timed
             /\ paced[k].delay < 0
             /\ (-paced[k].delay) * cfg.Speed.num <= (-GapMicros(paced[k].n)) * cfg.Speed.den
             /\ (-GapMicros(paced[k].n)) * cfg.Speed.den < (1 - paced[k].delay) * cfg.Speed.num
             /\ paced[k].slept = 0

\* at speed 1, a record four seconds before the last one
C9_Witness ==
    /\ cfg.Speed = Rat(1, 1)
    /\ Len(paced) = 2
    /\ GapMicros(paced[2].n) = -4000000
    /\ paced[2].delay = -4000000
    /\ pc = "scan"

\* C10: a line that fails parsing is logged and causes no sleep and no send;
\* the sleeps and the sends are those of the successfully parsed lines; the
\* last timestamp is that of the most recent successfully parsed line the
\* loop has paced, and none before the first.
C10_FailedLineLeavesNoTrace ==
    LET paces == IF pc = "pace" THEN Len(lines) - 1 ELSE Len(lines)
        last  == PrevOK(paces + 1)
    IN  /\ \A n \in 1..Len(lines) :
             ResultOf(n).kind = "err" =>
               /\ \E k \in 1..Len(logged) : logged[k].n = n
               /\ \A k \in 1..Len(paced) : paced[k].n # n
               /\ \A k \in 1..Len(posts) : posts[k].n # n
        /\ [k \in 1..Len(paced) |-> paced[k].n] = OKNumbers(paces)
        /\ [k \in 1..Len(posts) |-> posts[k].n] = OKNumbers(Handled)
        /\ lastTime = IF last = 0 THEN noTime ELSE ResultOf(last).timestamp

\* a parsed record, then a line without an address and a line with a bad
\* timestamp: the last timestamp is still that of the first line
C10_Witness ==
    /\ pc = "scan"
    /\ Len(lines) = 3
    /\ ResultOf(1).kind = "ok"
    /\ ResultOf(2).err = "No client IP address"
    /\ ResultOf(3).err = "parsing time"
    /\ lastTime = ResultOf(1).timestamp
    /\ Len(paced) = 1 /\ Len(posts) = 1 /\ Len(logged) = 2

=============================================================================
